---- MODULE Spec2Model ----
(***************************************************************************)
(* The concurrent conversion pipeline of image-encoder:                    *)
(*   - the GUI thread (App::update: drain the event channel, then render   *)
(*     and handle one click),                                              *)
(*   - one batch thread per Start Conversion (convert_images),             *)
(*   - the rayon jobs of each batch (the closure of par_iter().for_each),  *)
(*   - the shared ConversionProgress behind its parking_lot Mutex, the     *)
(*     shared Vec<ImageDetail>, and one mpsc channel per batch.            *)
(* Indices are 1-based here (the code's index i is i+1 in the model).      *)
(***************************************************************************)
EXTENDS Integers, Sequences, FiniteSets, TLC

\* Bounds of the model.
MaxJobs == 3      \* files submitted for conversion over one run of the program
MaxBatches == 2   \* Start Conversion clicks that spawn a batch thread
PoolSize == 2     \* threads of rayon's global pool
MaxRows == 1      \* rows of the table of selected images in a frame
MaxLines == 3     \* lines passed to Logger.log
MaxGuiLines == 1  \* lines the GUI thread pushes to the log itself

Files == 1 .. MaxJobs
Batches == 1 .. MaxBatches

\* Option<T>: None is the empty set, Some(x) the singleton.
None == {}
Some(x) == {x}

\* Sizes the file system reports: metadata(input).len() and the length of the
\* encoded WebP bytes of that input.
OrigSize(f) == 4 * f
EncSize(f) == f + 1

\* image_processing.rs:111, in percent (1.0 - compressed/original).
CompressionRate(compressed_size, original_size) ==
    100 - ((100 * compressed_size) \div original_size)

VARIABLES
    gui,                 \* App::update's position and its local `completed`
    input_files,         \* App.input_files
    image_details,       \* App.image_details (Arc<Mutex<Vec<ImageDetail>>>)
    progress,            \* App.conversion_progress (total, completed)
    progress_lock,       \* holder of the ConversionProgress mutex
    conversion_receiver, \* App.conversion_receiver: None or Some(batch)
    channel,             \* per batch: events in flight on its mpsc channel
    sent,                \* per batch: every event successfully sent, with its sender
    nextBatch,           \* number of the next batch thread to spawn
    thread,              \* per batch: position of the convert_images thread
    files,               \* per batch: the input_files clone moved into the thread
    job,                 \* per batch and index: the for_each closure's position
    marker,              \* per batch: the batch-local currently_processing
    settings,            \* App.resize_enabled, rename_enabled, output_filename
    params,              \* per batch: the settings passed to convert_images
    local,               \* per batch and index: the closure's steps and locals
    disk,                \* the output directory: file name -> bytes, if it exists
    original_sizes,      \* App.original_sizes (Arc<Mutex<Vec<u64>>>)
    compressed_sizes,    \* App.compressed_sizes (Arc<Mutex<Vec<u64>>>)
    mutex,               \* per parking_lot Mutex: the thread holding its guard
    code,                \* per thread: the lock operations it has yet to perform
    for_each,            \* per batch: closure calls not yet started, and a panic
    call,                \* per pool thread: the batch whose closure it is running
    spawned,             \* convert_images threads spawned so far
    log_sender,          \* per Logger: its mpsc Sender exists (not yet dropped)
    log_channel,         \* per Logger: lines in flight to its thread
    log_messages,        \* App.log_messages (Arc<Mutex<Vec<String>>>)
    logger_thread,       \* per Logger: position of its thread and the line in hand
    logged               \* per Logger and caller: lines passed to Logger.log

\* The conversion pipeline, the threads seen by the mutexes they take, and the
\* Loggers.
Pipeline ==
    << gui, input_files, image_details, progress, progress_lock,
       conversion_receiver, channel, sent, nextBatch, thread, files, job,
       marker, settings, params, local, disk, original_sizes,
       compressed_sizes >>
threads == << mutex, code, for_each, call, spawned >>
logging == << log_sender, log_channel, log_messages, logger_thread, logged >>

vars == << gui, input_files, image_details, progress, progress_lock,
           conversion_receiver, channel, sent, nextBatch, thread, files, job,
           marker, settings, params, local, disk, original_sizes,
           compressed_sizes, threads, logging >>

----------------------------------------------------------------------------
\* ConversionUpdate (app.rs:42-48).
Progress(completed, total) ==
    [type |-> "Progress", index |-> 0, completed |-> completed, total |-> total,
     size |-> None, rate |-> None, status |-> "", error |-> None]
ImageProcessed(index, compressed_size, compression_rate) ==
    [type |-> "ImageProcessed", index |-> index, completed |-> 0, total |-> 0,
     size |-> compressed_size, rate |-> compression_rate, status |-> "",
     error |-> None]
Completed ==
    [type |-> "Completed", index |-> 0, completed |-> 0, total |-> 0,
     size |-> None, rate |-> None, status |-> "", error |-> None]

\* ImageDetail as Select Images builds it (gui.rs:29-36).
NewImageDetail(f) ==
    [name |-> f, original_size |-> OrigSize(f), compressed_size |-> None,
     compression_rate |-> None, status |-> "Load successful",
     error_message |-> None]

IdleJob == [pc |-> "idle", res |-> "none", rd |-> 0]

\* The files the dialog offers, by number: a.jpg, b.jpg, a.png, b.png, ...
\* (distinct paths; Path::file_stem drops the extension).
file_stem(f) == IF f % 2 = 1 THEN "a" ELSE "b"

\* App::default (app.rs:71-77).
DefaultSettings ==
    [resize_enabled |-> FALSE, rename_enabled |-> FALSE,
     output_filename |-> "output"]

\* File names of the output directory, without the ".webp" they all end in.
Names == {file_stem(f) : f \in Files} \cup {"output"}

\* The bytes encode_to_webp makes of input f (a different length per input).
WebpData(f) == [k \in 1 .. EncSize(f) |-> f]

\* What the closure has done so far and the compressed_size it read at line 106.
NoLocal == [steps |-> << >>, compressed_size |-> 0]

\* The threads of the process: the GUI thread, one convert_images thread and
\* one Logger thread per batch, and the threads of rayon's global pool.
GuiThread == << "gui", 0 >>
BatchThread(b) == << "convert_images", b >>
LoggerThread(b) == << "logger", b >>
PoolThread(w) == << "rayon", w >>
PoolThreads == {PoolThread(w) : w \in 1 .. PoolSize}
Threads ==
    {GuiThread} \cup {BatchThread(b) : b \in Batches}
        \cup {LoggerThread(b) : b \in Batches} \cup PoolThreads

\* The mutexes: those of App (app.rs:26-37) and the currently_processing each
\* convert_images call makes for itself (image_processing.rs:60).
AppMutex(name) == << name, 0 >>
BatchMarker(b) == << "currently_processing", b >>
Mutexes ==
    {AppMutex(n) : n \in {"conversion_progress", "log_messages",
                          "original_sizes", "compressed_sizes",
                          "image_details", "currently_processing"}}
        \cup {BatchMarker(b) : b \in Batches}

\* Callers of one Logger: its convert_images thread (0) and the pool threads.
LogCallers == 0 .. PoolSize

\* Logger::new has not been called yet.
NoLoggerThread == [pc |-> "unborn", message |-> << >>]

Init ==
    /\ mutex = [m \in Mutexes |-> None]
    /\ code = [t \in Threads |-> << >>]
    /\ for_each = [b \in Batches |-> [todo |-> 0, panicked |-> FALSE]]
    /\ call = [t \in PoolThreads |-> 0]
    /\ spawned = 0
    /\ log_sender = [b \in Batches |-> FALSE]
    /\ log_channel = [b \in Batches |-> << >>]
    /\ log_messages = << >>
    /\ logger_thread = [b \in Batches |-> NoLoggerThread]
    /\ logged = [b \in Batches |-> [c \in LogCallers |-> 0]]
    /\ gui = [pc |-> "poll", completed |-> FALSE]
    /\ input_files = << >>
    /\ image_details = << >>
    /\ progress = [total |-> 0, completed |-> 0]
    /\ progress_lock = None
    /\ conversion_receiver = None
    /\ channel = [b \in Batches |-> << >>]
    /\ sent = [b \in Batches |-> << >>]
    /\ nextBatch = 1
    /\ thread = [b \in Batches |-> "unborn"]
    /\ files = [b \in Batches |-> << >>]
    /\ job = [b \in Batches |-> [i \in Files |-> IdleJob]]
    /\ marker = [b \in Batches |-> None]
    /\ settings = DefaultSettings
    /\ params = [b \in Batches |-> DefaultSettings]
    /\ local = [b \in Batches |-> [i \in Files |-> NoLocal]]
    /\ disk = [n \in Names |-> None]
    /\ original_sizes = << >>
    /\ compressed_sizes = << >>

----------------------------------------------------------------------------
\* Helpers.

total_files(b) == Len(files[b])
Indices(b) == 1 .. total_files(b)

\* parking_lot::Mutex::lock() on the ConversionProgress returns only when no
\* other thread holds the guard.
LockIgnored == TRUE
LockFree == progress_lock = None

\* mpsc::Sender::send succeeds while the Receiver of that channel exists.
ReceiverAlive(b) == conversion_receiver = Some(b)

Running ==
    {"save", "write", "record", "send_img", "lock", "incr", "store", "clear"}
Finished == {"done", "panicked", "skipped"}

\* Jobs occupying a thread of rayon's global pool (all batches share it).
ActiveJobs ==
    {bi \in Batches \X Files : job[bi[1]][bi[2]].pc \in Running}

SetJob(b, i, pc, res, rd) ==
    job' = [job EXCEPT ![b][i] = [pc |-> pc, res |-> res, rd |-> rd]]

Goto(b, i, pc) == SetJob(b, i, pc, job[b][i].res, job[b][i].rd)

\* sender.send(ev) by job i (0: the batch thread itself) of batch b.
Send(b, i, ev) ==
    /\ channel' = [channel EXCEPT ![b] = Append(@, ev)]
    /\ sent' = [sent EXCEPT ![b] = Append(@, [ev |-> ev, by |-> i])]

----------------------------------------------------------------------------
\* The GUI thread: App::update (app.rs:100-156) and gui::render.

\* The ImageProcessed and StatusUpdate arms of the match (app.rs:114-131):
\* get_mut(index) ignores an index past the end of the vector.
UpdateDetails(details, ev) ==
    IF ev.index > Len(details) THEN details
    ELSE IF ev.type = "ImageProcessed"
    THEN [details EXCEPT ![ev.index].compressed_size = ev.size,
                         ![ev.index].compression_rate = ev.rate]
    ELSE IF ev.type = "StatusUpdate"
    THEN [details EXCEPT ![ev.index].status = ev.status,
                         ![ev.index].error_message = ev.error]
    ELSE details

\* The Progress arm (app.rs:107-113): the value carried by the event is stored
\* into the shared ConversionProgress under its lock.
StoreProgress(p, ev) == [total |-> ev.total, completed |-> ev.completed]

RecvProgress(b) ==
    /\ gui.pc = "poll"
    /\ conversion_receiver = Some(b)
    /\ channel[b] # << >>
    /\ Head(channel[b]).type = "Progress"
    /\ LockFree
    /\ progress' = StoreProgress(progress, Head(channel[b]))
    /\ channel' = [channel EXCEPT ![b] = Tail(@)]
    /\ UNCHANGED << threads, logging,
                    gui, input_files, image_details, progress_lock,
                    conversion_receiver, sent, nextBatch, thread, files, job,
                    marker,
                    settings, params, local,
                    disk, original_sizes, compressed_sizes >>

RecvImageUpdate(b) ==
    /\ gui.pc = "poll"
    /\ conversion_receiver = Some(b)
    /\ channel[b] # << >>
    /\ Head(channel[b]).type \in {"ImageProcessed", "StatusUpdate"}
    /\ image_details' = UpdateDetails(image_details, Head(channel[b]))
    /\ channel' = [channel EXCEPT ![b] = Tail(@)]
    /\ UNCHANGED << threads, logging,
                    gui, input_files, progress, progress_lock,
                    conversion_receiver, sent, nextBatch, thread, files, job,
                    marker,
                    settings, params, local,
                    disk, original_sizes, compressed_sizes >>

RecvCompleted(b) ==
    /\ gui.pc = "poll"
    /\ conversion_receiver = Some(b)
    /\ channel[b] # << >>
    /\ Head(channel[b]).type = "Completed"
    /\ gui' = [gui EXCEPT !.completed = TRUE]
    /\ channel' = [channel EXCEPT ![b] = Tail(@)]
    /\ UNCHANGED << threads, logging,
                    input_files, image_details, progress, progress_lock,
                    conversion_receiver, sent, nextBatch, thread, files, job,
                    marker,
                    settings, params, local,
                    disk, original_sizes, compressed_sizes >>

\* try_recv() returns Err (no receiver, or nothing queued): the while loop ends,
\* and a drained Completed drops the receiver (app.rs:145-147).
EndPoll ==
    /\ gui.pc = "poll"
    /\ \A b \in Batches : conversion_receiver = Some(b) => channel[b] = << >>
    /\ conversion_receiver' = IF gui.completed THEN None ELSE conversion_receiver
    /\ gui' = [pc |-> "render", completed |-> FALSE]
    /\ UNCHANGED << threads, logging,
                    input_files, image_details, progress, progress_lock,
                    channel, sent, nextBatch, thread, files, job, marker,
                    settings, params, local,
                    disk, original_sizes, compressed_sizes >>

\* "Select Images" (gui.rs:24-40): n files picked in the dialog.
SelectImages(n) ==
    /\ gui.pc = "render"
    /\ input_files' = [i \in 1 .. n |-> i]
    /\ image_details' = [i \in 1 .. n |-> NewImageDetail(i)]
    /\ gui' = [gui EXCEPT !.pc = "poll"]
    /\ UNCHANGED << threads, logging,
                    progress, progress_lock, conversion_receiver, channel,
                    sent, nextBatch, thread, files, job, marker,
                    settings, params, local,
                    disk, original_sizes, compressed_sizes >>

\* "Select Images" again, the dialog returning other files: the n last ones
\* it offers, last first.
SelectOtherImages(n) ==
    /\ gui.pc = "render"
    /\ input_files' = [i \in 1 .. n |-> MaxJobs + 1 - i]
    /\ image_details' = [i \in 1 .. n |-> NewImageDetail(MaxJobs + 1 - i)]
    /\ gui' = [gui EXCEPT !.pc = "poll"]
    /\ UNCHANGED << threads, logging,
                    progress, progress_lock, conversion_receiver, channel,
                    sent, nextBatch, thread, files, job, marker, settings,
                    params, local, disk, original_sizes, compressed_sizes >>

\* The "Enable Resizing" checkbox (gui.rs:70).
ToggleResize ==
    /\ gui.pc = "render"
    /\ settings' = [settings EXCEPT !.resize_enabled = ~@]
    /\ gui' = [gui EXCEPT !.pc = "poll"]
    /\ UNCHANGED << threads, logging,
                    input_files, image_details, progress, progress_lock,
                    conversion_receiver, channel, sent, nextBatch, thread,
                    files, job, marker, params, local, disk, original_sizes,
                    compressed_sizes >>

\* The owner of the App sets its public fields rename_enabled and
\* output_filename (app.rs:23-25); render has no control for them.
SetRename(rename_enabled, output_filename) ==
    /\ gui.pc = "render"
    /\ settings' = [settings EXCEPT !.rename_enabled = rename_enabled,
                                    !.output_filename = output_filename]
    /\ gui' = [gui EXCEPT !.pc = "poll"]
    /\ UNCHANGED << threads, logging,
                    input_files, image_details, progress, progress_lock,
                    conversion_receiver, channel, sent, nextBatch, thread,
                    files, job, marker, params, local, disk, original_sizes,
                    compressed_sizes >>

\* start_conversion (gui.rs:210-251): a new channel replaces the receiver (the
\* old Receiver and what is queued on it are dropped) and the thread is spawned.
start_conversion(b) ==
    /\ files' = [files EXCEPT ![b] = input_files]
    /\ conversion_receiver' = Some(b)
    /\ channel' = [c \in Batches |->
                     IF conversion_receiver = Some(c) THEN << >> ELSE channel[c]]
    /\ params' = [params EXCEPT ![b] = settings]
    /\ thread' = [thread EXCEPT ![b] = "start"]
    /\ nextBatch' = b + 1

\* Files handed to convert_images so far.
RECURSIVE SumLen(_)
SumLen(b) == IF b = 0 THEN 0 ELSE Len(files[b]) + SumLen(b - 1)
Submitted == SumLen(MaxBatches)

\* "Start Conversion" (gui.rs:105-112): an empty selection is only logged.
ClickStartConversion ==
    /\ gui.pc = "render"
    /\ IF input_files = << >>
       THEN UNCHANGED << threads, logging,
                         files, conversion_receiver, channel, thread,
                         nextBatch, params >>
       ELSE /\ nextBatch \in Batches
            /\ Submitted + Len(input_files) <= MaxJobs
            /\ start_conversion(nextBatch)
    /\ gui' = [gui EXCEPT !.pc = "poll"]
    /\ UNCHANGED << threads, logging,
                    input_files, image_details, progress, progress_lock, sent,
                    job, marker,
                    settings, local, disk,
                    original_sizes, compressed_sizes >>

\* A frame without a click on these buttons.
RenderOnly ==
    /\ gui.pc = "render"
    /\ gui' = [gui EXCEPT !.pc = "poll"]
    /\ UNCHANGED << threads, logging,
                    input_files, image_details, progress, progress_lock,
                    conversion_receiver, channel, sent, nextBatch, thread,
                    files, job, marker,
                    settings, params, local,
                    disk, original_sizes, compressed_sizes >>

\* start_conversion called with whatever App.input_files holds, without the
\* click handler's is_empty test.
CallStartConversion ==
    /\ gui.pc = "render"
    /\ nextBatch \in Batches
    /\ start_conversion(nextBatch)
    /\ gui' = [gui EXCEPT !.pc = "poll"]
    /\ UNCHANGED << threads, logging,
                    input_files, image_details, progress, progress_lock, sent,
                    job, marker,
                    settings, local, disk,
                    original_sizes, compressed_sizes >>

----------------------------------------------------------------------------
\* The batch thread: convert_images (image_processing.rs:19-147).

\* image_processing.rs:40-43: an empty list is logged and the call returns.
ConvertEmpty(b) ==
    /\ thread[b] = "start"
    /\ files[b] = << >>
    /\ thread' = [thread EXCEPT ![b] = "returned"]
    /\ UNCHANGED << threads, logging,
                    gui, input_files, image_details, progress, progress_lock,
                    conversion_receiver, channel, sent, nextBatch, files, job,
                    marker,
                    settings, params, local,
                    disk, original_sizes, compressed_sizes >>

\* image_processing.rs:45-60: the reset of the shared progress in one critical
\* section, then the parallel iteration starts.
BeginBatch(b) ==
    /\ thread[b] = "start"
    /\ files[b] # << >>
    /\ LockFree
    /\ progress' = [total |-> total_files(b), completed |-> 0]
    /\ thread' = [thread EXCEPT ![b] = "par"]
    /\ UNCHANGED << threads, logging,
                    gui, input_files, image_details, progress_lock,
                    conversion_receiver, channel, sent, nextBatch, files, job,
                    marker,
                    settings, params, local,
                    disk, original_sizes, compressed_sizes >>

\* for_each returns normally once every closure call has returned.
FirstJobDone(b) == \E i \in Indices(b) : job[b][i].pc = "done"
AllJobsDone(b) == \A i \in Indices(b) : job[b][i].pc = "done"

SomeJobPanicked(b) == \E i \in Indices(b) : job[b][i].pc = "panicked"

\* image_processing.rs:140: sender.send(Completed).unwrap().
SendCompleted(b) ==
    /\ thread[b] = "par"
    /\ AllJobsDone(b)
    /\ IF ReceiverAlive(b)
       THEN /\ Send(b, 0, Completed)
            /\ thread' = [thread EXCEPT ![b] = "finish"]
       ELSE /\ thread' = [thread EXCEPT ![b] = "panicked"]
            /\ UNCHANGED << threads, logging, channel, sent >>
    /\ UNCHANGED << threads, logging,
                    gui, input_files, image_details, progress, progress_lock,
                    conversion_receiver, nextBatch, files, job, marker,
                    settings, params, local,
                    disk, original_sizes, compressed_sizes >>

\* image_processing.rs:142-146: the final status text, under the progress lock.
FinishBatch(b) ==
    /\ thread[b] = "finish"
    /\ LockFree
    /\ thread' = [thread EXCEPT ![b] = "done"]
    /\ UNCHANGED << threads, logging,
                    gui, input_files, image_details, progress, progress_lock,
                    conversion_receiver, channel, sent, nextBatch, files, job,
                    marker,
                    settings, params, local,
                    disk, original_sizes, compressed_sizes >>

\* A panic of a closure call is resumed in the batch thread once the other
\* calls of the iteration have ended: convert_images unwinds without line 140.
ResumePanic(b) ==
    /\ thread[b] = "par"
    /\ SomeJobPanicked(b)
    /\ \A i \in Indices(b) : job[b][i].pc \in Finished
    /\ thread' = [thread EXCEPT ![b] = "panicked"]
    /\ UNCHANGED << threads, logging,
                    gui, input_files, image_details, progress, progress_lock,
                    conversion_receiver, channel, sent, nextBatch, files, job,
                    marker,
                    settings, params, local,
                    disk, original_sizes, compressed_sizes >>

----------------------------------------------------------------------------
\* One call of the for_each closure (image_processing.rs:61-138) for index i of
\* batch b, on a thread of rayon's global pool.

\* image_processing.rs:100-101, 122-127: a failed step is logged and the closure
\* falls through to line 129.
AfterFailureAborts == "panicked"
AfterFailureRecords == "record"
AfterFailure == "lock"

\* The closure performs one more step of its pipeline.
Perform(b, i, step) ==
    local' = [local EXCEPT ![b][i].steps = Append(@, step)]

ConversionIgnoringFailure(b, outcome) ==
    IF params[b].resize_enabled THEN << "load", "resize", "encode" >>
    ELSE << "load", "encode" >>

\* image_processing.rs:64-83: load_image, resize_image when asked to, then
\* encode_to_webp unless the load failed.
Conversion(b, outcome) ==
    IF outcome = "decode" THEN << "load" >>
    ELSE IF params[b].resize_enabled THEN << "load", "resize", "encode" >>
    ELSE << "load", "encode" >>

\* image_processing.rs:61-87, 122-127: the call starts on a free pool thread,
\* records its index in the batch-local marker, then loads the image (resizing
\* it when asked to) and encodes it; these touch nothing shared. A failure of
\* the load or of the encoding is logged and the closure goes to line 129.
Dispatch(b, i) ==
    /\ thread[b] = "par"
    /\ i \in Indices(b)
    /\ job[b][i].pc = "idle"
    /\ Cardinality(ActiveJobs) < PoolSize
    /\ marker' = [marker EXCEPT ![b] = Some(i)]
    /\ \E outcome \in {"ok", "decode", "encode"} :
         /\ IF outcome = "ok"
            THEN SetJob(b, i, "save", "none", 0)
            ELSE SetJob(b, i, AfterFailure, outcome, 0)
         /\ local' = [local EXCEPT ![b][i].steps = Conversion(b, outcome)]
    /\ UNCHANGED << threads, logging,
                    gui, input_files, image_details, progress, progress_lock,
                    conversion_receiver, channel, sent, nextBatch, thread,
                    files, settings, params, disk, original_sizes,
                    compressed_sizes >>

\* image_processing.rs:89-93: the name of the output file, without ".webp".
output_file_name(b, i) ==
    IF params[b].rename_enabled /\ params[b].output_filename # ""
    THEN params[b].output_filename
    ELSE file_stem(files[b][i])

\* The bytes of a file that exists.
Bytes(file) == CHOOSE bytes \in file : TRUE

\* write_all on a handle at offset 0 of a file that holds `old`.
Overlay(old, data) ==
    [k \in 1 .. (IF Len(old) > Len(data) THEN Len(old) ELSE Len(data)) |->
        IF k <= Len(data) THEN data[k] ELSE old[k]]

\* image_processing.rs:89-97, 175: save_webp opens the output file with
\* File::create, which makes it or truncates it; Err is logged (100-101).
CreateFile(b, i) ==
    /\ job[b][i].pc = "save"
    /\ Perform(b, i, "create")
    /\ \E ok \in BOOLEAN :
         IF ok
         THEN /\ disk' = [disk EXCEPT ![output_file_name(b, i)] = Some(<< >>)]
              /\ SetJob(b, i, "write", "none", 0)
         ELSE /\ SetJob(b, i, AfterFailure, "write", 0)
              /\ UNCHANGED disk
    /\ UNCHANGED << threads, logging,
                    gui, input_files, image_details, progress, progress_lock,
                    conversion_receiver, channel, sent, nextBatch, thread,
                    files, marker, settings, params, original_sizes,
                    compressed_sizes >>

\* image_processing.rs:176, 100-103: write_all of the encoded bytes through the
\* handle opened by this call; Err is logged.
WriteFile(b, i) ==
    /\ job[b][i].pc = "write"
    /\ Perform(b, i, "write")
    /\ \E ok \in BOOLEAN :
         IF ok
         THEN /\ disk' = [disk EXCEPT ![output_file_name(b, i)] =
                             Some(Overlay(Bytes(@), WebpData(files[b][i])))]
              /\ SetJob(b, i, "record", "ok", 0)
         ELSE /\ SetJob(b, i, AfterFailure, "write", 0)
              /\ UNCHANGED disk
    /\ UNCHANGED << threads, logging,
                    gui, input_files, image_details, progress, progress_lock,
                    conversion_receiver, channel, sent, nextBatch, thread,
                    files, marker, settings, params, original_sizes,
                    compressed_sizes >>

\* std::fs::metadata(path).map(|m| m.len()).unwrap_or(0) on the output file.
FileLen(file) == IF file = None THEN 0 ELSE Len(Bytes(file))

\* image_processing.rs:113-117: the record at `index` of the shared vector, if
\* there is one, takes the sizes of this job.
RecordSizes(details, i, compressed_size, compression_rate) ==
    IF i > Len(details) THEN details
    ELSE [details EXCEPT ![i].compressed_size = Some(compressed_size),
                         ![i].compression_rate = Some(compression_rate)]

\* image_processing.rs:105-118: the sizes are read from the file system, pushed
\* to the shared totals and written to the record.
RecordResult(b, i) ==
    /\ job[b][i].pc = "record"
    /\ LET original_size == OrigSize(files[b][i])
           compressed_size == FileLen(disk[output_file_name(b, i)])
       IN  /\ original_sizes' = Append(original_sizes, original_size)
           /\ compressed_sizes' = Append(compressed_sizes, compressed_size)
           /\ image_details' =
                RecordSizes(image_details, i, compressed_size,
                            CompressionRate(compressed_size, original_size))
           /\ local' = [local EXCEPT
                          ![b][i].steps = Append(@, "record"),
                          ![b][i].compressed_size = compressed_size]
    /\ Goto(b, i, "send_img")
    /\ UNCHANGED << threads, logging,
                    gui, input_files, progress, progress_lock,
                    conversion_receiver, channel, sent, nextBatch, thread,
                    files, marker, settings, params, disk >>

\* image_processing.rs:120: send(ImageProcessed(..)).unwrap() panics when the
\* receiver of this batch's channel is gone.
SendImageProcessed(b, i) ==
    /\ job[b][i].pc = "send_img"
    /\ IF ReceiverAlive(b)
       THEN /\ LET original_size == OrigSize(files[b][i])
                   compressed_size == local[b][i].compressed_size
               IN  Send(b, i, ImageProcessed(i, Some(compressed_size),
                       Some(CompressionRate(compressed_size, original_size))))
            /\ Goto(b, i, "lock")
       ELSE /\ Goto(b, i, "panicked")
            /\ UNCHANGED << threads, logging, channel, sent >>
    /\ UNCHANGED << threads, logging,
                    gui, input_files, image_details, progress, progress_lock,
                    conversion_receiver, nextBatch, thread, files, marker,
                    settings, params, local, disk, original_sizes,
                    compressed_sizes >>

\* image_processing.rs:129: progress.lock().
LockProgress(b, i) ==
    /\ job[b][i].pc = "lock"
    /\ LockFree
    /\ progress_lock' = Some(<< b, i >>)
    /\ Goto(b, i, "incr")
    /\ UNCHANGED << threads, logging,
                    gui, input_files, image_details, progress,
                    conversion_receiver, channel, sent, nextBatch, thread,
                    files, marker,
                    settings, params, local,
                    disk, original_sizes, compressed_sizes >>

\* image_processing.rs:130, the read of `progress.completed += 1`.
ReadCompleted(b, i) ==
    /\ job[b][i].pc = "incr"
    /\ SetJob(b, i, "store", job[b][i].res, progress.completed)
    /\ UNCHANGED << threads, logging,
                    gui, input_files, image_details, progress, progress_lock,
                    conversion_receiver, channel, sent, nextBatch, thread,
                    files, marker,
                    settings, params, local,
                    disk, original_sizes, compressed_sizes >>

\* image_processing.rs:130-134: the write of the increment, then
\* send(Progress(progress.completed, total_files)).unwrap() with the guard still
\* held; a panic unwinds and drops the guard.
StoreCompleted(b, i) ==
    /\ job[b][i].pc = "store"
    /\ progress' = [progress EXCEPT !.completed = job[b][i].rd + 1]
    /\ IF ReceiverAlive(b)
       THEN /\ Send(b, i, Progress(job[b][i].rd + 1, total_files(b)))
            /\ SetJob(b, i, "clear", job[b][i].res, 0)
            /\ UNCHANGED progress_lock
       ELSE /\ SetJob(b, i, "panicked", job[b][i].res, 0)
            /\ progress_lock' = None
            /\ UNCHANGED << threads, logging, channel, sent >>
    /\ UNCHANGED << threads, logging,
                    gui, input_files, image_details, conversion_receiver,
                    nextBatch, thread, files, marker,
                    settings, params, local,
                    disk, original_sizes, compressed_sizes >>

\* image_processing.rs:136-138: the marker is cleared and the closure returns,
\* dropping the progress guard.
ClearMarker(b, i) ==
    /\ job[b][i].pc = "clear"
    /\ marker' = [marker EXCEPT ![b] = None]
    /\ progress_lock' = None
    /\ Goto(b, i, "done")
    /\ UNCHANGED << threads, logging,
                    gui, input_files, image_details, progress,
                    conversion_receiver, channel, sent, nextBatch, thread,
                    files,
                    settings, params, local,
                    disk, original_sizes, compressed_sizes >>

\* After a panic in the iteration rayon may drop items it has not started.
SkipJob(b, i) ==
    /\ thread[b] = "par"
    /\ i \in Indices(b)
    /\ job[b][i].pc = "idle"
    /\ SomeJobPanicked(b)
    /\ Goto(b, i, "skipped")
    /\ UNCHANGED << threads, logging,
                    gui, input_files, image_details, progress, progress_lock,
                    conversion_receiver, channel, sent, nextBatch, thread,
                    files, marker,
                    settings, params, local,
                    disk, original_sizes, compressed_sizes >>

----------------------------------------------------------------------------
GuiStep ==
    \/ \E b \in Batches : RecvProgress(b)
    \/ \E b \in Batches : RecvImageUpdate(b)
    \/ \E b \in Batches : RecvCompleted(b)
    \/ EndPoll
    \/ \E n \in Files : SelectImages(n)
    \/ ClickStartConversion
    \/ RenderOnly

ThreadStep ==
    \E b \in Batches :
        \/ BeginBatch(b)
        \/ SendCompleted(b)
        \/ FinishBatch(b)
        \/ ResumePanic(b)

JobStep ==
    \E b \in Batches : \E i \in Files :
        \/ Dispatch(b, i)
        \/ CreateFile(b, i)
        \/ WriteFile(b, i)
        \/ RecordResult(b, i)
        \/ SendImageProcessed(b, i)
        \/ LockProgress(b, i)
        \/ ReadCompleted(b, i)
        \/ StoreCompleted(b, i)
        \/ ClearMarker(b, i)
        \/ SkipJob(b, i)

Next == GuiStep \/ ThreadStep \/ JobStep

\* The application as the user drives it.
Spec == Init /\ [][Next]_vars

\* One batch from the selection to the drained Completed: the files are selected
\* before Start Conversion and nothing is clicked while the batch runs.
NextBatch ==
    \/ \E b \in Batches : RecvProgress(b)
    \/ \E b \in Batches : RecvImageUpdate(b)
    \/ \E b \in Batches : RecvCompleted(b)
    \/ EndPoll
    \/ RenderOnly
    \/ \E n \in Files : nextBatch = 1 /\ SelectImages(n)
    \/ nextBatch = 1 /\ ClickStartConversion
    \/ \E b \in Batches :
          \/ BeginBatch(b)
          \/ SendCompleted(b)
          \/ FinishBatch(b)
    \/ \E b \in Batches : \E i \in Files :
          \/ Dispatch(b, i)
          \/ CreateFile(b, i)
          \/ WriteFile(b, i)
          \/ RecordResult(b, i)
          \/ SendImageProcessed(b, i)
          \/ LockProgress(b, i)
          \/ ReadCompleted(b, i)
          \/ StoreCompleted(b, i)
          \/ ClearMarker(b, i)

SpecBatch == Init /\ [][NextBatch]_vars

\* Start Conversion may be clicked again at any time, also while a batch is
\* running; the selection is made before the first click, and may be narrowed
\* to its first file before the second.
NextRestart ==
    \/ \E b \in Batches : RecvProgress(b)
    \/ \E b \in Batches : RecvImageUpdate(b)
    \/ \E b \in Batches : RecvCompleted(b)
    \/ EndPoll
    \/ RenderOnly
    \/ \E n \in Files : nextBatch = 1 /\ SelectImages(n)
    \/ nextBatch = 2 /\ Len(input_files) > 1 /\ SelectImages(1)
    \/ ClickStartConversion
    \/ ThreadStep
    \/ JobStep

SpecRestart == Init /\ [][NextRestart]_vars

\* One batch, and the user selecting other images once it has been started.
NextReselect ==
    \/ NextBatch
    \/ \E n \in Files : nextBatch > 1 /\ SelectOtherImages(n)

SpecReselect == Init /\ [][NextReselect]_vars

\* One batch with resizing switched on or off before it is started.
NextResize ==
    \/ NextBatch
    \/ nextBatch = 1 /\ ToggleResize

SpecResize == Init /\ [][NextResize]_vars

\* One batch with the renaming fields set before it is started.
NextRename ==
    \/ NextBatch
    \/ \E r \in BOOLEAN : \E n \in {"", "output"} :
          nextBatch = 1 /\ SetRename(r, n)

SpecRename == Init /\ [][NextRename]_vars

\* One call of start_conversion with whatever App.input_files holds, the empty
\* list of a fresh App included (the click handler's is_empty test left out).
NextDirect ==
    \/ NextBatch
    \/ nextBatch = 1 /\ CallStartConversion
    \/ \E b \in Batches : ConvertEmpty(b)

SpecDirect == Init /\ [][NextDirect]_vars

----------------------------------------------------------------------------
\* The threads as the mutexes see them: each thread performs the lock and
\* unlock operations of the code it runs, in the order of the code.
\* parking_lot's Mutex::lock() returns when no thread holds the guard (it is
\* not reentrant), and a guard is released where it is dropped, also when a
\* panic unwinds through it.

NoMutex == << "", 0 >>
Op(op, m, n) == [op |-> op, m |-> m, n |-> n]
Lock(m) == Op("lock", m, 0)
Unlock(m) == Op("unlock", m, 0)

\* A statement `x.lock().f(..)` or `*x.lock() = v`, or a guard dropped after
\* plain assignments: the thread waits for the mutex, and the guard it gets is
\* gone when the statement is over.
Locked(m) == << Op("locked", m, 0) >>

\* utils.rs:16-20: the Logger thread pushes one received line.
LoggerCodeUnderProgress ==
    << Lock(AppMutex("log_messages")), Lock(AppMutex("conversion_progress")),
       Unlock(AppMutex("conversion_progress")),
       Unlock(AppMutex("log_messages")) >>
LoggerCode == Locked(AppMutex("log_messages"))

\* The operations that wait for a mutex.
Locking == {"lock", "locked"}

\* image_processing.rs:108-118 of a converted item: the two pushes, then the
\* image_details guard from line 113 to drop(image_details).
RecordCode ==
    Locked(AppMutex("original_sizes")) \o Locked(AppMutex("compressed_sizes"))
        \o Locked(AppMutex("image_details"))

\* One call of the for_each closure (image_processing.rs:61-138): the marker at
\* line 62, the record of a converted item, then the progress guard from line
\* 129 to the end of the closure with the marker statement of line 136 inside.
\* panic is the line of the send(..).unwrap() that panics, or 0.
ClosureCode(b, converted, panic) ==
    Locked(BatchMarker(b))
        \o (IF converted THEN RecordCode ELSE << >>)
        \o (IF panic = 120 THEN << Op("panic", NoMutex, b) >>
            ELSE << Lock(AppMutex("conversion_progress")) >>
                   \o (IF panic = 134 THEN << >> ELSE Locked(BatchMarker(b)))
                   \o << Unlock(AppMutex("conversion_progress")) >>
                   \o (IF panic = 134 THEN << Op("panic", NoMutex, b) >>
                       ELSE << >>))

\* convert_images of n files (image_processing.rs:45-147): the reset under the
\* progress lock (49-53), the parallel iteration (61-138), which returns when
\* every closure call has, and the final status under the lock (145-147).
ConvertImagesCode(b, n) ==
    Locked(AppMutex("conversion_progress"))
        \o << Op("for_each", NoMutex, n), Op("join", NoMutex, b) >>
        \o Locked(AppMutex("conversion_progress"))

\* App::update (app.rs:104-143): the arm of one drained event.
DrainCode(event) ==
    IF event = "Progress" THEN Locked(AppMutex("conversion_progress"))
    ELSE IF event = "ImageProcessed" THEN Locked(AppMutex("image_details"))
    ELSE << >>

\* gui::render, the rows of the table (gui.rs:137-173): the image_details guard
\* is held over the loop, whose every row reads App.currently_processing.
RECURSIVE RowsCode(_)
RowsCode(rows) ==
    IF rows = 0 THEN << >>
    ELSE Locked(AppMutex("currently_processing")) \o RowsCode(rows - 1)
TableCode(rows) ==
    << Lock(AppMutex("image_details")) >> \o RowsCode(rows)
        \o << Unlock(AppMutex("image_details")) >>

\* gui.rs:187-206: the progress guard lives to the end of the group, the guard
\* of the log lines (197) to the end of the scroll area inside it.
LogPanelCode ==
    << Lock(AppMutex("conversion_progress")), Lock(AppMutex("log_messages")),
       Unlock(AppMutex("log_messages")),
       Unlock(AppMutex("conversion_progress")) >>

\* One frame: App::update drains, then gui::render from top to bottom: Select
\* Images (gui.rs:38-39), Select Output Directory (46), the results (90),
\* Start Conversion (105-112), the table and the log panel.
FrameCode(event, click, rows) ==
    DrainCode(event)
        \o (IF click = "Select Images"
            THEN Locked(AppMutex("image_details"))
                     \o Locked(AppMutex("log_messages"))
            ELSE << >>)
        \o (IF click = "Select Output Directory"
            THEN Locked(AppMutex("log_messages")) ELSE << >>)
        \o Locked(AppMutex("compressed_sizes"))
        \o (IF click = "Start Conversion"
            THEN Locked(AppMutex("log_messages"))
                     \o << Op("spawn", NoMutex, 0) >>
            ELSE << >>)
        \o TableCode(rows)
        \o LogPanelCode

Events == {"", "Progress", "ImageProcessed"}
Clicks == {"", "Select Images", "Select Output Directory", "Start Conversion"}

\* The next operation of thread t.
Next_op(t) == Head(code[t])
At(t, op) == code[t] # << >> /\ Next_op(t).op = op

\* The rest of thread t's code after its next operation. A pool thread that has
\* none left has returned from its closure call; a Logger thread that has none
\* left is given the next line (utils.rs:17), whenever that line is sent.
Advance(t) ==
    /\ code' = [code EXCEPT ![t] =
                    IF Tail(@) = << >> /\ t \in {LoggerThread(b) : b \in Batches}
                    THEN LoggerCode ELSE Tail(@)]
    /\ call' = IF t \in PoolThreads /\ Tail(code[t]) = << >>
               THEN [call EXCEPT ![t] = 0] ELSE call

\* The GUI thread starts a frame.
BeginFrame(event, click, rows) ==
    /\ code[GuiThread] = << >>
    /\ click = "Start Conversion" => spawned < MaxBatches
    /\ code' = [code EXCEPT ![GuiThread] = FrameCode(event, click, rows)]
    /\ UNCHANGED << Pipeline, logging, mutex, for_each, call, spawned >>

\* Mutex::lock(): waits while another guard exists.
Acquire(t) ==
    /\ At(t, "lock")
    /\ mutex[Next_op(t).m] = None
    /\ mutex' = [mutex EXCEPT ![Next_op(t).m] = Some(t)]
    /\ Advance(t)
    /\ UNCHANGED << Pipeline, logging, for_each, spawned >>

\* Mutex::lock() in a statement that drops the guard at its end.
AcquireAndRelease(t) ==
    /\ At(t, "locked")
    /\ mutex[Next_op(t).m] = None
    /\ Advance(t)
    /\ UNCHANGED << Pipeline, logging, mutex, for_each, spawned >>

\* The guard is dropped.
Release(t) ==
    /\ At(t, "unlock")
    /\ mutex[Next_op(t).m] = Some(t)
    /\ mutex' = [mutex EXCEPT ![Next_op(t).m] = None]
    /\ Advance(t)
    /\ UNCHANGED << Pipeline, logging, for_each, spawned >>

\* start_conversion (gui.rs:231): the thread of the next batch is spawned for
\* the n files of the selection, and it spawns the thread of its Logger
\* (image_processing.rs:36).
Spawn(n) ==
    /\ At(GuiThread, "spawn")
    /\ spawned < MaxBatches
    /\ spawned' = spawned + 1
    /\ code' = [code EXCEPT ![GuiThread] = Tail(@),
                            ![BatchThread(spawned + 1)] =
                                ConvertImagesCode(spawned + 1, n),
                            ![LoggerThread(spawned + 1)] = LoggerCode]
    /\ UNCHANGED << Pipeline, logging, mutex, for_each, call >>

\* image_processing.rs:61: the closure calls are handed to the global pool.
BeginForEach(b) ==
    /\ At(BatchThread(b), "for_each")
    /\ for_each' = [for_each EXCEPT ![b].todo = Next_op(BatchThread(b)).n]
    /\ Advance(BatchThread(b))
    /\ UNCHANGED << Pipeline, logging, mutex, spawned >>

\* A pool thread starts one closure call of batch b.
BeginCall(t, b, converted, panic) ==
    /\ t \in PoolThreads
    /\ call[t] = 0
    /\ for_each[b].todo > 0
    /\ panic = 120 => converted
    /\ call' = [call EXCEPT ![t] = b]
    /\ code' = [code EXCEPT ![t] = ClosureCode(b, converted, panic)]
    /\ for_each' = [for_each EXCEPT ![b].todo = @ - 1]
    /\ UNCHANGED << Pipeline, logging, mutex, spawned >>

\* send(..).unwrap() panics: the closure call ends by unwinding.
PanicCall(t) ==
    /\ At(t, "panic")
    /\ for_each' = [for_each EXCEPT ![call[t]].panicked = TRUE]
    /\ Advance(t)
    /\ UNCHANGED << Pipeline, logging, mutex, spawned >>

\* After a panic rayon may drop the calls it has not started.
SkipCalls(b) ==
    /\ for_each[b].panicked
    /\ for_each[b].todo > 0
    /\ for_each' = [for_each EXCEPT ![b].todo = 0]
    /\ UNCHANGED << Pipeline, logging, mutex, code, call, spawned >>

\* for_each returns when no call of the batch is left or running; a panic of a
\* call is resumed here and convert_images unwinds.
EndForEach(b) ==
    /\ At(BatchThread(b), "join")
    /\ for_each[b].todo = 0
    /\ \A t \in PoolThreads : call[t] # b
    /\ code' = [code EXCEPT ![BatchThread(b)] =
                    IF for_each[b].panicked THEN << >> ELSE Tail(@)]
    /\ UNCHANGED << Pipeline, logging, mutex, for_each, call, spawned >>

NextThreads ==
    \/ \E event \in Events, click \in Clicks, rows \in 0 .. MaxRows :
          BeginFrame(event, click, rows)
    \/ \E t \in Threads : Acquire(t)
    \/ \E t \in Threads : AcquireAndRelease(t)
    \/ \E t \in Threads : Release(t)
    \/ \E n \in 1 .. MaxJobs : Spawn(n)
    \/ \E b \in Batches : BeginForEach(b)
    \/ \E t \in PoolThreads, b \in Batches, converted \in BOOLEAN,
          panic \in {0, 120, 134} : BeginCall(t, b, converted, panic)
    \/ \E t \in PoolThreads : PanicCall(t)
    \/ \E b \in Batches : SkipCalls(b)
    \/ \E b \in Batches : EndForEach(b)

\* All threads of the process with every lock operation of theirs.
SpecThreads == Init /\ [][NextThreads]_vars

----------------------------------------------------------------------------
\* The Logger (utils.rs:8-30): log() sends the line down an mpsc channel, and
\* the thread spawned by new() pushes every line it receives to the shared
\* log_messages. Each convert_images call makes its own Logger (line 36),
\* which lives until the call ends; all of them push to App.log_messages.

\* The n-th line caller c passes to the Logger of batch b (the timestamp that
\* log() puts in front of the text is part of the line).
LogLine(b, c, n) == [logger |-> b, caller |-> c, n |-> n]

\* A line the GUI thread pushes itself (gui.rs:39, 46, 107, 109).
GuiLine(n) == [logger |-> 0, caller |-> 0, n |-> n]
GuiLines == Cardinality({k \in 1 .. Len(log_messages) :
                            log_messages[k].logger = 0})

RECURSIVE SumLogged(_, _)
SumLogged(b, c) ==
    IF b = 0 THEN 0
    ELSE IF c < 0 THEN SumLogged(b - 1, PoolSize)
    ELSE logged[b][c] + SumLogged(b, c - 1)
\* Lines passed to Logger.log so far.
TotalLogged == SumLogged(MaxBatches, PoolSize)

\* utils.rs:13-23: the channel is made and the thread spawned.
NewLogger(b) ==
    /\ logger_thread[b].pc = "unborn"
    /\ \A a \in Batches : a < b => logger_thread[a].pc # "unborn"
    /\ log_sender' = [log_sender EXCEPT ![b] = TRUE]
    /\ logger_thread' = [logger_thread EXCEPT ![b].pc = "recv"]
    /\ UNCHANGED << Pipeline, threads, log_channel, log_messages, logged >>

\* utils.rs:25-29: the line is sent; unwrap_or_default() discards the error of
\* a send whose receiver is gone.
log(b, c) ==
    /\ log_sender[b]
    /\ TotalLogged < MaxLines
    /\ logged' = [logged EXCEPT ![b][c] = @ + 1]
    /\ log_channel' =
         IF logger_thread[b].pc = "exited" THEN log_channel
         ELSE [log_channel EXCEPT
                  ![b] = Append(@, LogLine(b, c, logged[b][c] + 1))]
    /\ UNCHANGED << Pipeline, threads, log_sender, log_messages,
                    logger_thread >>

\* convert_images ends (by its return or by unwinding): the Logger, a local of
\* the call, is dropped and its Sender with it.
DropLogger(b) ==
    /\ log_sender[b]
    /\ log_sender' = [log_sender EXCEPT ![b] = FALSE]
    /\ UNCHANGED << Pipeline, threads, log_channel, log_messages,
                    logger_thread, logged >>

\* utils.rs:17: `for message in receiver` takes the next line.
LoggerReceive(b) ==
    /\ logger_thread[b].pc = "recv"
    /\ log_channel[b] # << >>
    /\ logger_thread' = [logger_thread EXCEPT
                            ![b] = [pc |-> "push",
                                    message |-> << Head(log_channel[b]) >>]]
    /\ log_channel' = [log_channel EXCEPT ![b] = Tail(@)]
    /\ UNCHANGED << Pipeline, threads, log_sender, log_messages, logged >>

\* utils.rs:18: log_messages.lock().push(message), once the mutex is free.
LoggerPush(b) ==
    /\ logger_thread[b].pc = "push"
    /\ mutex[AppMutex("log_messages")] = None
    /\ log_messages' = log_messages \o logger_thread[b].message
    /\ logger_thread' = [logger_thread EXCEPT
                            ![b] = [pc |-> "recv", message |-> << >>]]
    /\ UNCHANGED << Pipeline, threads, log_sender, log_channel, logged >>

\* Receiver's iterator returns None when the Sender is gone and no line is
\* left in the channel.
SenderGone(b) == ~log_sender[b]
Disconnected(b) == log_channel[b] = << >> /\ ~log_sender[b]

\* utils.rs:17: the iteration ends and the thread with it.
LoggerExit(b) ==
    /\ logger_thread[b].pc = "recv"
    /\ Disconnected(b)
    /\ logger_thread' = [logger_thread EXCEPT ![b].pc = "exited"]
    /\ UNCHANGED << Pipeline, threads, log_sender, log_channel,
                    log_messages, logged >>

\* gui.rs:197: the GUI thread takes the guard to render the lines.
GuiLockLog ==
    /\ mutex[AppMutex("log_messages")] = None
    /\ mutex' = [mutex EXCEPT ![AppMutex("log_messages")] = Some(GuiThread)]
    /\ UNCHANGED << Pipeline, code, for_each, call, spawned, logging >>

\* gui.rs:205: the guard is dropped at the end of the scroll area.
GuiUnlockLog ==
    /\ mutex[AppMutex("log_messages")] = Some(GuiThread)
    /\ mutex' = [mutex EXCEPT ![AppMutex("log_messages")] = None]
    /\ UNCHANGED << Pipeline, code, for_each, call, spawned, logging >>

\* gui.rs:39, 46, 107, 109: app.log_messages.lock().push(..) by a click handler.
GuiPush ==
    /\ mutex[AppMutex("log_messages")] = None
    /\ GuiLines < MaxGuiLines
    /\ log_messages' = Append(log_messages, GuiLine(GuiLines + 1))
    /\ UNCHANGED << Pipeline, threads, log_sender, log_channel,
                    logger_thread, logged >>

NextLogger ==
    \/ \E b \in Batches : NewLogger(b)
    \/ \E b \in Batches : \E c \in LogCallers : log(b, c)
    \/ \E b \in Batches : DropLogger(b)
    \/ \E b \in Batches : LoggerReceive(b)
    \/ \E b \in Batches : LoggerPush(b)
    \/ \E b \in Batches : LoggerExit(b)
    \/ GuiLockLog
    \/ GuiUnlockLog
    \/ GuiPush

\* The Loggers, their callers and the GUI thread. Every thread that can run
\* does run in the end: the Logger thread takes a line that waits for it, the
\* frame of the GUI thread ends and drops its guard, and lock() in the Logger
\* thread gets the mutex when it is free again and again (parking_lot hands a
\* mutex over to a waiting thread).
SpecLogger ==
    /\ Init
    /\ [][NextLogger]_vars
    /\ \A b \in Batches :
          /\ WF_vars(LoggerReceive(b))
          /\ SF_vars(LoggerPush(b))
    /\ WF_vars(GuiUnlockLog)

----------------------------------------------------------------------------
\* What the properties below speak about.

\* Places in the record of batch b's sends that hold an event of type t (sent
\* by job i).
Positions(b, t) == {k \in 1 .. Len(sent[b]) : sent[b][k].ev.type = t}
PositionsBy(b, t, i) == {k \in Positions(b, t) : sent[b][k].by = i}

IsProgress(e) == e.ev.type = "Progress"
\* The Progress events of batch b in the order they were sent.
ProgressEvents(b) ==
    LET s == SelectSeq(sent[b], IsProgress)
    IN  [k \in 1 .. Len(s) |-> s[k].ev]

\* Batch b was started and no later Start Conversion has replaced its receiver.
Current(b) == thread[b] # "unborn" /\ nextBatch = b + 1

Failures == {"decode", "encode", "write"}

\* Only the workers of batch b have written progress.completed since its reset:
\* the consumer has stored none of its Progress events, and every earlier batch
\* had returned from for_each (its Completed was sent) before b was started.
WorkersAlone(b) ==
    /\ Current(b)
    /\ ReceiverAlive(b)
    /\ Cardinality({k \in 1 .. Len(channel[b]) : channel[b][k].type = "Progress"})
         = Cardinality(Positions(b, "Progress"))
    /\ \A c \in Batches : c < b => thread[c] \in {"finish", "done"}

\* The consumer has taken the Completed event of batch b off the channel.
Drained(b) == Positions(b, "Completed") # {} /\ channel[b] = << >>

----------------------------------------------------------------------------
\* The order of Completed on the channel: at most one is sent, as the last
\* event the batch ever sends, and when it is sent every index has finished
\* its closure call and has its Progress event (and, converted, its
\* ImageProcessed event) earlier in the channel.
CompletedOrdered(b) ==
    /\ Cardinality(Positions(b, "Completed")) <= 1
    /\ \A k \in Positions(b, "Completed") :
         /\ k = Len(sent[b])
         /\ \A i \in Indices(b) :
              /\ job[b][i].pc = "done"
              /\ \E p \in PositionsBy(b, "Progress", i) : p < k
              /\ job[b][i].res = "ok" =>
                   \E p \in PositionsBy(b, "ImageProcessed", i) : p < k
    /\ \A k \in 1 .. Len(channel[b]) :
         channel[b][k].type = "Completed" => k = Len(channel[b])

\* convert_images has ended for batch b, by returning or by unwinding.
Ended(b) == thread[b] \in {"done", "panicked"}

\* C1 (as claimed): every non-empty batch puts Completed on the channel exactly
\* once (it has, when convert_images ends), after every per-item event of the
\* batch and with none after it.
C1_CompletedExactlyOnce ==
    \A b \in Batches :
        /\ CompletedOrdered(b)
        /\ (files[b] # << >> /\ Ended(b))
             => Cardinality(Positions(b, "Completed")) = 1

\* What holds of C1: the order always, and exactly one Completed for a batch
\* whose receiver no later Start Conversion replaced.
C1_HoldsWhileReceiverStands ==
    \A b \in Batches :
        /\ CompletedOrdered(b)
        /\ (Current(b) /\ files[b] # << >> /\ Ended(b))
             => Cardinality(Positions(b, "Completed")) = 1

\* A job sends one Progress event, when it reaches line 134, and none before.
ProgressSentAtLine134(b) ==
    \A i \in Files :
        Cardinality(PositionsBy(b, "Progress", i)) =
            (IF job[b][i].pc \in {"clear", "done"} THEN 1 ELSE 0)

\* C2 (as claimed): whatever the outcomes of the items, every index of a batch
\* finishes its pipeline and has sent exactly one Progress event, N in all, when
\* the batch ends; and until then some worker or batch thread can always take
\* its next step.
C2_OneProgressPerIndex ==
    \A b \in Batches :
        /\ ProgressSentAtLine134(b)
        /\ thread[b] \in {"start", "par"} => ENABLED (ThreadStep \/ JobStep)
        /\ Ended(b) =>
             /\ \A i \in Indices(b) :
                  /\ job[b][i].pc = "done"
                  /\ Cardinality(PositionsBy(b, "Progress", i)) = 1
             /\ Cardinality(Positions(b, "Progress")) = total_files(b)

\* What holds of C2: the same for a batch whose receiver no later Start
\* Conversion replaced.
C2_HoldsWhileReceiverStands ==
    \A b \in Batches :
        /\ ProgressSentAtLine134(b)
        /\ thread[b] \in {"start", "par"} => ENABLED (ThreadStep \/ JobStep)
        /\ (Current(b) /\ Ended(b)) =>
             /\ \A i \in Indices(b) :
                  /\ job[b][i].pc = "done"
                  /\ Cardinality(PositionsBy(b, "Progress", i)) = 1
             /\ Cardinality(Positions(b, "Progress")) = total_files(b)

\* C3 (as claimed): convert_images called with an empty list leaves the
\* progress state alone and has sent Completed when it returns.
C3_EmptyBatchSignalsCompletion ==
    \A b \in Batches :
        thread[b] = "returned" =>
            /\ progress = [total |-> 0, completed |-> 0]
            /\ Cardinality(Positions(b, "Completed")) = 1

\* C4 (as claimed): 0 <= completed <= total in every reachable state.
C4_CompletedWithinTotal ==
    0 <= progress.completed /\ progress.completed <= progress.total

\* C5 (as claimed): after the reset at the start of the batch no write makes
\* progress.completed smaller.
C5_CompletedNeverDecreases ==
    [][thread' = thread => progress'.completed >= progress.completed]_vars

\* C6 (as claimed): once the consumer has drained Completed,
\* completed = total = N.
C6_CompleteAfterDrain ==
    \A b \in Batches :
        Drained(b) =>
            /\ progress.total = total_files(b)
            /\ progress.completed = total_files(b)

\* C7: the progress lock serializes the increments: a job between lines 129 and
\* 138 holds the lock, the value it read is still the counter's value when it
\* stores the increment, and, where only the workers of a batch have written
\* the counter, the k-th Progress event sent is Progress(k, N).
C7_IncrementsSerialized ==
    /\ \A b \in Batches : \A i \in Files :
         /\ job[b][i].pc \in {"incr", "store", "clear"}
              => progress_lock = Some(<< b, i >>)
         /\ job[b][i].pc = "store" => job[b][i].rd = progress.completed
    /\ \A b \in Batches :
         WorkersAlone(b) =>
             \A k \in 1 .. Len(ProgressEvents(b)) :
                 ProgressEvents(b)[k] = Progress(k, total_files(b))

\* The third job of a batch stores 3 while nothing has been drained, after it
\* waited for the lock.
C7_Witness ==
    /\ WorkersAlone(1)
    /\ total_files(1) = 3
    /\ Len(ProgressEvents(1)) = 3
    /\ ProgressEvents(1)[3] = Progress(3, 3)

\* The status a Result Record is claimed to show for the position of its job.
ClaimedStatus(j) ==
    IF j.pc = "idle" THEN "Load successful"
    ELSE IF j.pc # "done" THEN "Processing..."
    ELSE IF j.res = "ok" THEN "Conversion successful"
    ELSE "Conversion failed"

\* C8 (as claimed): the record of index i is Processing while its job runs and
\* ends Succeeded or Failed with the job.
C8_StatusFollowsJob ==
    \A b \in Batches :
        Current(b) =>
            \A i \in Indices(b) :
                i <= Len(image_details) =>
                    image_details[i].status = ClaimedStatus(job[b][i])

\* C9 (as claimed): when Completed is sent, each index has put one terminal
\* StatusUpdate on the channel before it.
C9_StatusUpdatePerIndex ==
    \A b \in Batches :
        \A k \in Positions(b, "Completed") :
            \A i \in Indices(b) :
                /\ Cardinality(PositionsBy(b, "StatusUpdate", i)) = 1
                /\ \A p \in PositionsBy(b, "StatusUpdate", i) : p < k

\* C10: a failed decode, encode or write ends neither the closure call of its
\* job nor the batch: the failed job sends no ImageProcessed event and goes on
\* to the increment at line 130; a job or a batch thread panics only when the
\* receiver of its channel is gone, never on such a failure; a converted job
\* has sent its ImageProcessed event whatever its siblings did; and a batch that
\* returns has counted every index, failed or not (N increments, one Progress
\* event each), and has sent Completed.
C10_FailuresIsolated ==
    \A b \in Batches :
        /\ thread[b] = "panicked" => ~ReceiverAlive(b)
        /\ \A i \in Indices(b) :
             /\ job[b][i].pc \in {"panicked", "skipped"} => ~ReceiverAlive(b)
             /\ job[b][i].res \in Failures =>
                  /\ job[b][i].pc \in {"lock", "incr", "store", "clear", "done",
                                      "panicked"}
                  /\ PositionsBy(b, "ImageProcessed", i) = {}
             /\ (job[b][i].res = "ok" /\ job[b][i].pc = "done") =>
                  Cardinality(PositionsBy(b, "ImageProcessed", i)) = 1
        /\ thread[b] = "done" =>
             /\ \A i \in Indices(b) :
                  /\ job[b][i].pc = "done"
                  /\ job[b][i].res \in Failures \cup {"ok"}
             /\ Cardinality(Positions(b, "Progress")) = total_files(b)
             /\ Cardinality(Positions(b, "Completed")) = 1

\* Two files, the first cannot be decoded: one failure, one success, two
\* increments, Completed.
C10_Witness ==
    /\ thread[1] = "done"
    /\ total_files(1) = 2
    /\ job[1][1].res = "decode"
    /\ job[1][2].res = "ok"
    /\ Cardinality(Positions(1, "Progress")) = 2
    /\ Cardinality(Positions(1, "ImageProcessed")) = 1
    /\ Positions(1, "Completed") # {}

\* C11 (as claimed): whenever a worker or the batch thread sends an event, the
\* sending thread holds no lock on the shared progress; here, a step that adds
\* an event to a batch's sends is not taken by the holder of the progress lock.
C11_NoSendUnderLock ==
    [][\A b \in Batches :
          Len(sent'[b]) > Len(sent[b])
              => progress_lock # Some(<< b, sent'[b][Len(sent'[b])].by >>)]_vars

\* C14 (as claimed): no closure call and no batch thread ends by panic.
C14_NoPanic ==
    \A b \in Batches :
        /\ thread[b] # "panicked"
        /\ \A i \in Files : job[b][i].pc # "panicked"

\* A Result Record as it is at submission: Loaded, no size, no ratio.
FreshRecord(d) ==
    /\ d.status = "Load successful"
    /\ d.compressed_size = None
    /\ d.compression_rate = None

\* C15 (as claimed): at the step that submits a batch (start_conversion spawns
\* its thread) every Result Record is fresh.
C15_RecordsFreshAtStart ==
    [][\A b \in Batches :
          (thread[b] = "unborn" /\ thread'[b] = "start") =>
              \A i \in 1 .. Len(image_details') :
                  FreshRecord(image_details'[i])]_vars

\* C20 (as claimed): the marker holds the index of every job from its dispatch
\* to the end of its closure call, and is empty once the batch has returned.
C20_MarkerHoldsActiveIndex ==
    \A b \in Batches :
        /\ \A i \in Indices(b) :
             job[b][i].pc \in Running => i \in marker[b]
        /\ thread[b] = "done" => marker[b] = None

\* C16 (as claimed): a Result Record holds a compressed size only if the job
\* at its index, converting the file the record was made for, recorded that
\* size.
C16_RecordMutatedByOwnJob ==
    \A i \in 1 .. Len(image_details) :
        image_details[i].compressed_size # None =>
            \E b \in Batches :
                /\ i \in Indices(b)
                /\ files[b][i] = image_details[i].name
                /\ job[b][i].pc \in {"send_img", "lock", "incr", "store",
                                    "clear", "done", "panicked"}
                /\ job[b][i].res = "ok"
                /\ image_details[i].compressed_size =
                       Some(local[b][i].compressed_size)

\* The record of index i holds a size and a ratio.
RecordHoldsResult(i) ==
    /\ i <= Len(image_details)
    /\ image_details[i].compressed_size # None
    /\ image_details[i].compression_rate # None

\* C18 (as claimed): a job's ImageProcessed event precedes its Progress event
\* in the channel, and at the step that sends ImageProcessed(i, ..) the shared
\* record of index i holds the size and the ratio.
C18_OwnEventsInOrder ==
    [][\A b \in Batches :
          /\ \A i \in Indices(b) :
               \A p \in PositionsBy(b, "Progress", i) :
                   \A q \in PositionsBy(b, "ImageProcessed", i) : q < p
          /\ (Len(sent'[b]) > Len(sent[b])
                /\ sent'[b][Len(sent'[b])].ev.type = "ImageProcessed")
               => RecordHoldsResult(sent'[b][Len(sent'[b])].ev.index)]_vars

\* What holds of C18: the same while no other selection is made during the
\* batch.
C18_HoldsWithoutReselection ==
    \A b \in Batches : \A i \in Indices(b) :
        /\ \A p \in PositionsBy(b, "Progress", i) :
               \A q \in PositionsBy(b, "ImageProcessed", i) : q < p
        /\ job[b][i].pc = "send_img" => RecordHoldsResult(i)
        /\ PositionsBy(b, "ImageProcessed", i) # {} => RecordHoldsResult(i)

\* Jobs that came through the success branch (lines 103-120): decode, encode
\* and write succeeded and the closure is past line 118.
Succeeded ==
    {bi \in Batches \X Files :
        /\ job[bi[1]][bi[2]].res = "ok"
        /\ job[bi[1]][bi[2]].pc \in {"send_img", "lock", "incr", "store",
                                    "clear", "done", "panicked"}}

\* How many entries of the vector sizes equal n.
Occurrences(sizes, n) == Cardinality({k \in 1 .. Len(sizes) : sizes[k] = n})

\* C12: original_sizes and compressed_sizes hold one entry each per job whose
\* decode, encode and write succeeded and none for any other job: they are as
\* long as there are such jobs, the original sizes in them are those of the
\* inputs of these jobs, each as often as such a job converted that input, and
\* a job that failed is never among them.
C12_TotalsFromSucceededOnly ==
    /\ Len(original_sizes) = Cardinality(Succeeded)
    /\ Len(compressed_sizes) = Cardinality(Succeeded)
    /\ \A f \in Files :
         Occurrences(original_sizes, OrigSize(f)) =
             Cardinality({bi \in Succeeded : files[bi[1]][bi[2]] = f})
    /\ \A bi \in Succeeded :
         /\ local[bi[1]][bi[2]].steps \in
                {<< "load", "encode", "create", "write", "record" >>,
                 << "load", "resize", "encode", "create", "write", "record" >>}
         /\ Occurrences(compressed_sizes,
                        local[bi[1]][bi[2]].compressed_size) >= 1
    /\ \A b \in Batches : \A i \in Indices(b) :
         (job[b][i].pc = "done" /\ job[b][i].res = "ok")
             => << b, i >> \in Succeeded

\* A batch of two files has returned; the write of the first failed, the second
\* was converted: one entry in each vector, that of the second file.
C12_Witness ==
    /\ thread[1] = "done"
    /\ total_files(1) = 2
    /\ job[1][1].res = "write"
    /\ job[1][2].res = "ok"
    /\ original_sizes = << OrigSize(2) >>
    /\ compressed_sizes = << EncSize(2) >>

\* Indices of batch b whose decode, encode and write succeeded.
Converted(b) == {i \in Indices(b) : job[b][i].res = "ok"}

\* Files that exist in the output directory.
OutputFiles == {n \in Names : disk[n] # None}

\* C13 (as claimed): with renaming disabled, two different converted inputs of
\* a batch never have the same destination, and when the batch has returned the
\* output directory holds as many files as inputs were converted.
C13_OneFilePerConvertedInput ==
    \A b \in Batches :
        ~params[b].rename_enabled =>
            /\ \A i \in Converted(b) : \A k \in Converted(b) :
                 i # k => output_file_name(b, i) # output_file_name(b, k)
            /\ thread[b] = "done" =>
                 Cardinality(OutputFiles) = Cardinality(Converted(b))

\* C17: the pipeline of a job stops at its first failing step, and the job is
\* counted all the same: after a failed decode only the load was performed;
\* after a failed encode nothing was created or written; after a failed write
\* no sizes were read or recorded; a failed job has sent no ImageProcessed
\* event and the record of its index holds no size and no ratio; and when its
\* closure call has returned it has incremented completed and sent its one
\* Progress event.
C17_StopsAtFirstFailure ==
    \A b \in Batches : \A i \in Indices(b) :
        LET j == job[b][i]
            steps == local[b][i].steps
        IN  /\ j.res = "decode" => steps = << "load" >>
            /\ j.res = "encode" =>
                 steps \in {<< "load", "encode" >>,
                            << "load", "resize", "encode" >>}
            /\ j.res = "write" =>
                 /\ steps[Len(steps)] \in {"create", "write"}
                 /\ \A k \in 1 .. Len(steps) : steps[k] # "record"
            /\ j.res \in Failures =>
                 /\ PositionsBy(b, "ImageProcessed", i) = {}
                 /\ i <= Len(image_details) =>
                      /\ image_details[i].compressed_size = None
                      /\ image_details[i].compression_rate = None
                 /\ j.pc \in {"lock", "incr", "store", "clear", "done"}
                 /\ j.pc \in {"clear", "done"} =>
                      /\ Cardinality(PositionsBy(b, "Progress", i)) = 1
                      /\ progress.completed >= 1

\* Three files with resizing on: the first is not decoded, the second not
\* encoded, the third not written; all three are counted.
C17_Witness ==
    /\ thread[1] = "done"
    /\ params[1].resize_enabled
    /\ job[1][1].res = "decode"
    /\ job[1][2].res = "encode"
    /\ job[1][3].res = "write"
    /\ local[1][3].steps = << "load", "resize", "encode", "create", "write" >>
    /\ Cardinality(Positions(1, "Progress")) = 3
    /\ Positions(1, "ImageProcessed") = {}

\* Batch b renames its outputs.
Renames(b) == params[b].rename_enabled /\ params[b].output_filename # ""

\* C19 (as claimed): with renaming on and a base name every item has the
\* destination of that name, otherwise that of its own stem; and when a
\* renaming batch has returned with every item converted, the file of that
\* name holds exactly the bytes one of its workers wrote (the last to write).
C19_RenamedFileFromLastWriter ==
    \A b \in Batches :
        /\ \A i \in Indices(b) :
             output_file_name(b, i) =
                 (IF Renames(b) THEN params[b].output_filename
                  ELSE file_stem(files[b][i]))
        /\ (Renames(b) /\ thread[b] = "done" /\ Converted(b) = Indices(b)) =>
             \E i \in Converted(b) :
                 disk[params[b].output_filename] = Some(WebpData(files[b][i]))

----------------------------------------------------------------------------
\* C22 (as claimed): the Progress events of a batch are on the channel in
\* strictly increasing order of their completed value, 1, 2, ..., N: no
\* Progress event follows one with a larger or an equal value.
C22_ProgressStrictlyIncreasing ==
    \A b \in Batches :
        \A j, k \in 1 .. Len(ProgressEvents(b)) :
            j < k =>
                ProgressEvents(b)[j].completed < ProgressEvents(b)[k].completed

----------------------------------------------------------------------------
\* C23: for a batch that no later Start Conversion has followed, Completed is
\* the last event the batch puts on the channel; no send of the batch fails (no
\* closure call and no batch thread panics, and an event is only ever put on
\* the channel while its receiver stands); and when the consumer has dropped
\* the receiver, it had drained Completed and no event is left undelivered.
C23_CompletedLastOfSingleBatch ==
    \A b \in Batches :
        Current(b) =>
            /\ \A k \in Positions(b, "Completed") : k = Len(sent[b])
            /\ thread[b] # "panicked"
            /\ \A i \in Indices(b) : job[b][i].pc # "panicked"
            /\ channel[b] # << >> => ReceiverAlive(b)
            /\ ~ReceiverAlive(b) =>
                 /\ Positions(b, "Completed") # {}
                 /\ channel[b] = << >>
                 /\ thread[b] \in {"finish", "done"}

\* The receiver of a batch of two or more files, one of them converted, has
\* been dropped after its Completed.
C23_Witness ==
    \E b \in Batches :
        /\ Current(b)
        /\ total_files(b) >= 2
        /\ conversion_receiver = None
        /\ Positions(b, "Completed") # {}
        /\ Positions(b, "ImageProcessed") # {}

----------------------------------------------------------------------------
\* C24 (as claimed): for every converted index the compressed size the job
\* read back at line 106, which it writes to the Result Record and sends in
\* ImageProcessed, is the length of the bytes this job itself encoded and wrote.
C24_RecordedSizeIsOwnBytes ==
    \A b \in Batches : \A i \in Indices(b) :
        /\ <<b, i>> \in Succeeded =>
             local[b][i].compressed_size = EncSize(files[b][i])
        /\ \A k \in PositionsBy(b, "ImageProcessed", i) :
             sent[b][k].ev.size = Some(EncSize(files[b][i]))

----------------------------------------------------------------------------
\* Thread t waits in Mutex::lock() for a guard another thread (or itself) holds.
Waiting(t) ==
    /\ code[t] # << >>
    /\ Next_op(t).op \in Locking
    /\ mutex[Next_op(t).m] # None

\* The thread holding the guard t waits for.
WaitsFor(t) == CHOOSE h \in Threads : mutex[Next_op(t).m] = Some(h)

\* Some step of thread t.
Runs(t) ==
    \/ Acquire(t)
    \/ AcquireAndRelease(t)
    \/ Release(t)
    \/ PanicCall(t)
    \/ t = GuiThread /\ \E event \in Events, click \in Clicks :
                             BeginFrame(event, click, 0)
    \/ t = GuiThread /\ \E n \in 1 .. MaxJobs : Spawn(n)
    \/ \E b \in Batches :
          t = BatchThread(b) /\ (BeginForEach(b) \/ EndForEach(b))
    \/ \E b \in Batches : BeginCall(t, b, FALSE, 0)

\* Thread t can take a step, or waits for a guard whose holder can, or whose
\* holder waits for one whose holder can, and so on (n links at most).
RECURSIVE Unblocked(_, _)
Unblocked(t, n) ==
    \/ ENABLED Runs(t)
    \/ n > 0 /\ Waiting(t) /\ Unblocked(WaitsFor(t), n - 1)

\* for_each of batch b has closure calls that have not returned.
JobsRemain(b) ==
    for_each[b].todo > 0 \/ \E t \in PoolThreads : call[t] = b

\* A numbering of the mutexes by which the acquisition order is checked.
Rank(m) ==
    IF m \in {AppMutex("conversion_progress"), AppMutex("image_details")}
    THEN 1 ELSE 2

\* C21: the lock acquisition order has no cycle (a thread that waits for a
\* mutex holds only mutexes of smaller rank), every waiting thread waits on a
\* chain of holders that ends in a thread able to step, and while closure
\* calls of a batch remain some pool thread is able to step or waits so.
C21_DeadlockFree ==
    /\ \A t \in Threads : \A m \in Mutexes :
           (mutex[m] = Some(t) /\ code[t] # << >>
                /\ Next_op(t).op \in Locking)
               => Rank(m) < Rank(Next_op(t).m)
    /\ \A t \in Threads : Waiting(t) => Unblocked(t, Cardinality(Threads))
    /\ \A b \in Batches :
           JobsRemain(b) =>
               \E t \in PoolThreads : Unblocked(t, Cardinality(Threads))

\* Both pool threads wait for the progress lock, which the GUI thread holds
\* together with the lock of the log lines, while a convert_images thread
\* waits in for_each and a closure call has not been started.
C21_Witness ==
    /\ \A t \in PoolThreads : Waiting(t) /\ WaitsFor(t) = GuiThread
    /\ mutex[AppMutex("log_messages")] = Some(GuiThread)
    /\ \E b \in Batches :
           At(BatchThread(b), "join") /\ for_each[b].todo > 0

----------------------------------------------------------------------------
\* How often line l is in a sequence of lines.
Copies(lines, l) == Cardinality({k \in 1 .. Len(lines) : lines[k] = l})

\* Line l is on its way: in the channel or in the hand of the Logger thread.
OnTheWay(l) ==
    Copies(log_channel[l.logger], l)
        + Copies(logger_thread[l.logger].message, l)

\* Every line passed to Logger.log is in the buffer or on its way to it, once
\* in all, and no other line of a Logger is anywhere.
EachLineOnce ==
    \A b \in Batches : \A c \in LogCallers : \A n \in 1 .. MaxLines :
        Copies(log_messages, LogLine(b, c, n)) + OnTheWay(LogLine(b, c, n))
            = (IF n <= logged[b][c] THEN 1 ELSE 0)

\* The lines of one caller of one Logger are in the buffer in the order of
\* the calls.
CallerOrderKept ==
    \A j, k \in 1 .. Len(log_messages) :
        (/\ j < k
         /\ log_messages[j].logger # 0
         /\ log_messages[j].logger = log_messages[k].logger
         /\ log_messages[j].caller = log_messages[k].caller)
            => log_messages[j].n < log_messages[k].n

\* C25: every line passed to Logger.log while the Logger is alive is appended
\* to the shared buffer exactly once, in the end; the lines of one caller are
\* there in the order it logged them; log() can be called whoever holds the
\* lock of the buffer and touches neither the lock nor the buffer; and the
\* Logger thread ends with nothing left in its channel.
C25_LoggerDelivers ==
    /\ [](EachLineOnce /\ CallerOrderKept)
    /\ [](\A b \in Batches :
             logger_thread[b].pc = "exited" => log_channel[b] = << >>)
    /\ [](\A b \in Batches : \A c \in LogCallers :
             (log_sender[b] /\ TotalLogged < MaxLines) => ENABLED log(b, c))
    /\ [][logged' # logged
             => mutex' = mutex /\ log_messages' = log_messages]_vars
    /\ \A b \in Batches : \A c \in LogCallers : \A n \in 1 .. MaxLines :
          (logged[b][c] >= n) ~> (Copies(log_messages, LogLine(b, c, n)) = 1)

\* A Logger thread has ended after bringing the lines of its convert_images
\* thread and of a pool thread to the buffer, where a line of the GUI thread
\* stands between them.
C25_Witness ==
    \E b \in Batches :
        /\ logger_thread[b].pc = "exited"
        /\ logged[b][0] >= 1
        /\ logged[b][1] >= 2
        /\ Len(log_messages) = MaxLines + MaxGuiLines
        /\ log_messages[1].logger = b
        /\ log_messages[2].logger = 0

====
